---- MODULE Spec2Model ----
(***************************************************************************)
(* Model of the CytoTRACE kernel of cellrank:                              *)
(*   src/cellrank/tl/kernels/_cytotrace_kernel.py  (CytoTRACEKernel)       *)
(*   src/cellrank/tl/kernels/_mixins.py           (ConnectivityMixin)      *)
(*   src/cellrank/pl/_utils.py                    (_fit_gene_trends)       *)
(* The annotated-data store (AnnData) is the state: X, layers, raw, obs,   *)
(* var, uns, obsp.  Real numbers are exact rationals <<n, d>> with d > 0   *)
(* in lowest terms; the IEEE specials are NaN = <<0, 0>>, +inf = <<1, 0>>  *)
(* and -inf = <<-1, 0>>.                                                   *)
(***************************************************************************)
EXTENDS Integers, Sequences, FiniteSets, TLC

\* ------------------------------------------------------------------ bounds
NCells == 2
NGenes == 2
NRawExtra == 1
MaxExpr == 1
TopExtra == 1
CorrLevels == 1
MaxCalls == 2
RootScale == 100
MaxFitGenes == 2
MaxFitLineages == 2
NModelGenes == 2
NModelLineages == 2

Cells == 1..NCells
Genes == 1..NGenes
RawGenes == 1..(NGenes + NRawExtra)
ExprVals == 0..MaxExpr

NaN == <<0, 0>>
PosInf == <<1, 0>>
NegInf == <<-1, 0>>
None == "None"

\* ------------------------------------------------------- exact arithmetic
Abs(x) == IF x < 0 THEN -x ELSE x

RECURSIVE GCD(_, _)
GCD(a, b) == IF b = 0 THEN a ELSE GCD(b, a % b)

\* the rational n/d in lowest terms, d > 0
Rat(n, d) ==
  LET s == IF d < 0 THEN -1 ELSE 1
      g == GCD(Abs(n), Abs(d))
  IN  <<(s * n) \div g, (s * d) \div g>>

RInt(n) == <<n, 1>>
RAdd(a, b) == Rat(a[1] * b[2] + b[1] * a[2], a[2] * b[2])
RSub(a, b) == Rat(a[1] * b[2] - b[1] * a[2], a[2] * b[2])
RLeq(a, b) == a[1] * b[2] <= b[1] * a[2]

\* IEEE division of two finite floats: x/0 is NaN for x = 0, and an infinity
\* otherwise
FDiv(a, b) ==
  IF b[1] = 0
    THEN (IF a[1] = 0 THEN NaN ELSE IF a[1] > 0 THEN PosInf ELSE NegInf)
    ELSE Rat(a[1] * b[2], a[2] * b[1])

\* 1 - x on a float that may be NaN or infinite
OneMinus(x) ==
  IF x = NaN THEN NaN
  ELSE IF x = PosInf THEN NegInf
  ELSE IF x = NegInf THEN PosInf
  ELSE RSub(RInt(1), x)

\* the function f with every value evaluated (TLC keeps a function
\* constructor unevaluated and would recompute it at every application)
Tabulate(f) == f @@ <<>>

RECURSIVE SeqSum(_)
SeqSum(s) == IF s = <<>> THEN 0 ELSE Head(s) + SeqSum(Tail(s))

RECURSIVE SeqProd(_)
SeqProd(s) == IF s = <<>> THEN 1 ELSE Head(s) * SeqProd(Tail(s))

RECURSIVE Pow(_, _)
Pow(b, e) == IF e = 0 THEN 1 ELSE b * Pow(b, e - 1)

\* largest r with r^k <= n, by bisection of lo..hi (lo^k <= n < (hi + 1)^k)
RECURSIVE IRootIn(_, _, _, _)
IRootIn(k, n, lo, hi) ==
  IF lo = hi THEN lo
  ELSE LET mid == (lo + hi + 1) \div 2
       IN  IF Pow(mid, k) <= n THEN IRootIn(k, n, mid, hi) ELSE IRootIn(k, n, lo, mid - 1)

\* maximum / minimum of a non-empty function of rationals
RMaxOf(f) == CHOOSE x \in {f[i] : i \in DOMAIN f} :
               \A i \in DOMAIN f : RLeq(f[i], x)
RMinOf(f) == CHOOSE x \in {f[i] : i \in DOMAIN f} :
               \A i \in DOMAIN f : RLeq(x, f[i])

\* the ascending sort of a sequence of naturals
RECURSIVE SortNat(_)
SortNat(s) ==
  IF s = <<>> THEN <<>>
  ELSE LET m == CHOOSE i \in DOMAIN s : \A j \in DOMAIN s : s[i] <= s[j]
           rest == [j \in 1..(Len(s) - 1) |-> IF j < m THEN s[j] ELSE s[j + 1]]
       IN  <<s[m]>> \o SortNat(rest)

\* ------------------------------------------------------------ aggregation
\* the expression of cell c over the selected genes, in selection order
RowOf(M, c, top_genes) == Tabulate([i \in 1..Len(top_genes) |-> M[c][top_genes[i]]])

AggMean(xs) == Rat(SeqSum(xs), Len(xs))

AggMedian(xs) ==
  LET s == SortNat(xs)
      k == Len(xs)
  IN  IF k % 2 = 1 THEN RInt(s[(k + 1) \div 2])
      ELSE Rat(s[k \div 2] + s[(k \div 2) + 1], 2)

\* scipy.stats.gmean: exp(mean(log(x))); a zero entry gives 0.  The k-th
\* root is rounded down to a multiple of 1/RootScale.
AggGmean(xs) ==
  IF \E i \in DOMAIN xs : xs[i] = 0 THEN RInt(0)
  ELSE LET k == Len(xs)
           hi == RootScale * SortNat(xs)[k]
       IN  Rat(IRootIn(k, SeqProd(xs) * Pow(RootScale, k), 0, hi), RootScale)

RECURSIVE SumInv(_)
SumInv(xs) == IF xs = <<>> THEN RInt(0) ELSE RAdd(Rat(1, Head(xs)), SumInv(Tail(xs)))

\* scipy.stats.hmean: size / sum(1/x); a zero entry gives size/inf = 0
AggHmean(xs) ==
  IF \E i \in DOMAIN xs : xs[i] = 0 THEN RInt(0)
  ELSE LET q == SumInv(xs) IN Rat(Len(xs) * q[2], q[1])

CytoTRACEAggregation == {"mean", "median", "gmean", "hmean"}

Aggregate(aggregation, xs) ==
  CASE aggregation = "mean" -> AggMean(xs)
    [] aggregation = "median" -> AggMedian(xs)
    [] aggregation = "gmean" -> AggGmean(xs)
    [] aggregation = "hmean" -> AggHmean(xs)

\* ------------------------------------------------------------ correlation
\* number of genes expressed per cell
NumExpGenes(M, genes) == Tabulate([c \in Cells |-> Cardinality({g \in genes : M[c][g] > 0})])

\* Pearson correlation of every gene's expression with the vector y, one
\* value per gene, NaN for a zero variance.  The value kept is r * |r|
\* (exact, and ordered as r is).
CorrelationTest(M, y, genes) ==
  LET n == NCells
      Sy == SeqSum([c \in Cells |-> y[c]])
      Syy == SeqSum([c \in Cells |-> y[c] * y[c]])
      Vy == n * Syy - Sy * Sy
      corr(g) ==
        LET Sx == SeqSum([c \in Cells |-> M[c][g]])
            Sxx == SeqSum([c \in Cells |-> M[c][g] * M[c][g]])
            Sxy == SeqSum([c \in Cells |-> M[c][g] * y[c]])
            Vx == n * Sxx - Sx * Sx
            C == n * Sxy - Sx * Sy
        IN  IF Vx * Vy = 0 THEN NaN
            ELSE Rat((IF C < 0 THEN -1 ELSE 1) * C * C, Vx * Vy)
  IN  Tabulate([g \in genes |-> corr(g)])

\* ---------------------------------------------------------------- sorting
\* the sort in the direction opposite to the one asked for
SortValuesReversed(gene_corr, ascending) ==
  LET n == Cardinality(DOMAIN gene_corr)
      before(a, b) ==
        IF gene_corr[a] = NaN THEN gene_corr[b] = NaN /\ a < b
        ELSE IF gene_corr[b] = NaN THEN TRUE
        ELSE IF ascending THEN RLeq(gene_corr[b], gene_corr[a])
        ELSE RLeq(gene_corr[a], gene_corr[b])
  IN  {p \in Permutations(1..n) :
         \A i, j \in 1..n : i < j => before(p[i], p[j])}

\* pandas Series.sort_values(ascending=...): kind defaults to 'quicksort',
\* which is not stable, and na_position to 'last' (the NaN entries follow in
\* index order).  Every order the sort can return.
SortValues(gene_corr, ascending) ==
  LET n == Cardinality(DOMAIN gene_corr)
      before(a, b) ==
        IF gene_corr[a] = NaN THEN gene_corr[b] = NaN /\ a < b
        ELSE IF gene_corr[b] = NaN THEN TRUE
        ELSE IF ascending THEN RLeq(gene_corr[a], gene_corr[b])
        ELSE RLeq(gene_corr[b], gene_corr[a])
  IN  {p \in Permutations(1..n) :
         \A i, j \in 1..n : i < j => before(p[i], p[j])}

\* ------------------------------------------------------- _compute_score
FilterSeq(s, S) == SelectSeq(s, LAMBDA g : g \in S)
\* the list without truncation
PrefixWhole(s, k) == s
\* s[:k]
Prefix(s, k) == SubSeq(s, 1, IF k < Len(s) THEN k ELSE Len(s))
SeqRange(s) == {s[i] : i \in DOMAIN s}

\* [g for g in <sorted index> if g in self.adata.var_names][:n_top_genes]
TopGenes(order, var_names, n_top_genes) ==
  Prefix(FilterSeq(order, var_names), n_top_genes)

\* the NaN entries of the selection not counted
InvalidGenesIgnored(gene_corr, top_genes) == 0

\* int(gene_corr.loc[top_genes].isnull().sum())
InvalidGenes(gene_corr, top_genes) ==
  Cardinality({i \in DOMAIN top_genes : gene_corr[top_genes[i]] = NaN})

\* adata.X for "X", adata.layers[layer] otherwise (a KeyError when absent)
HasLayer(ad, layer) == layer = "X" \/ layer \in DOMAIN ad.layers
LayerMatrix(ad, layer) == IF layer = "X" THEN ad.X ELSE ad.layers[layer]

NoScore == [exc |-> "", top_genes |-> <<>>, score |-> <<>>, warned |-> FALSE]

\* _compute_score(gene_corr, layer, aggregation, ascending, n_top_genes);
\* order is what gene_corr.sort_values(ascending=ascending) returned.  The
\* exception for n_top_genes <= 0 names the side ("negatively" if ascending
\* else "positively").
compute_score(ad, gene_corr, order, layer, aggregation, ascending, n_top_genes) ==
  LET top_genes == TopGenes(order, Genes, n_top_genes)
      warned == Len(top_genes) # n_top_genes
      fail(e, w) == [exc |-> e, top_genes |-> <<>>, score |-> <<>>, warned |-> w]
  IN  IF n_top_genes <= 0
        THEN fail(IF ascending THEN "ValueError:n_neg_genes" ELSE "ValueError:n_pos_genes", FALSE)
      ELSE IF InvalidGenes(gene_corr, top_genes) # 0 THEN fail("ValueError:NaN", FALSE)
      ELSE IF Len(top_genes) = 0 THEN fail("ValueError:empty", FALSE)
      ELSE IF ~HasLayer(ad, layer) THEN fail("KeyError:layers", warned)
      ELSE IF aggregation \notin CytoTRACEAggregation THEN fail("NotImplementedError", warned)
      ELSE [exc |-> "ok", top_genes |-> top_genes,
            score |-> Tabulate([c \in Cells |->
                        Aggregate(aggregation, RowOf(LayerMatrix(ad, layer), c, top_genes))]),
            warned |-> warned]

\* ----------------------------------------------------- compute_cytotrace
\* Key.cytotrace(...)
KeyScore == "ct_score"
KeyPseudotime == "ct_pseudotime"
KeyNumExpGenes == "ct_num_exp_genes"
KeyGeneCorr == "ct_gene_corr"
KeyPosCorrelates == "ct_pos_correlates"
KeyNegCorrelates == "ct_neg_correlates"
KeyParams == "ct_params"
CtObsKeys == {KeyScore, KeyPseudotime, KeyNumExpGenes}
CtVarKeys == {KeyGeneCorr, KeyPosCorrelates, KeyNegCorrelates}
CtUnsKeys == {KeyParams}

\* f with the keys of g added or replaced
\* the written columns replace the whole frame
AssignOnly(f, g) == g

\* adata.obs[key] = ..., adata.var[key] = ..., adata.uns[key] = ...: the keys
\* written are added or overwritten, the other keys stay
Assign(f, g) == [k \in DOMAIN f \cup DOMAIN g |-> IF k \in DOMAIN g THEN g[k] ELSE f[k]]

\* The locals of one call.  exc is "" while the call runs; a local that has
\* not been computed yet is <<>>; obs, var, uns are the writes made so far.
\* n_neg_genes is <<>> for None and <<n>> for the integer n.
Locals(layer, aggregation, use_raw, n_pos_genes, n_neg_genes) ==
  [layer |-> layer, aggregation |-> aggregation, use_raw |-> use_raw,
   n_pos_genes |-> n_pos_genes, n_neg_genes |-> n_neg_genes,
   use_raw_given |-> use_raw,
   exc |-> "", warnings |-> {},
   num_exp_genes |-> <<>>, gene_corr |-> <<>>,
   pos |-> NoScore, neg |-> NoScore, cytotrace_score |-> <<>>, combined |-> <<>>,
   obs |-> <<>>, var |-> <<>>, uns |-> <<>>]

\* aggregation = CytoTRACEAggregation(aggregation)
CheckAggregation(L) ==
  IF L.aggregation \in CytoTRACEAggregation THEN L
  ELSE [L EXCEPT !.exc = "ValueError:aggregation"]

\* a missing raw matrix taken as an error
CheckRawRaises(ad, L) ==
  IF L.exc # "" THEN L
  ELSE IF L.use_raw /\ ~ad.raw.present THEN [L EXCEPT !.exc = "ValueError:raw"]
  ELSE L

\* if use_raw and self.adata.raw is None: warn, use_raw = False
CheckRaw(ad, L) ==
  IF L.exc # "" THEN L
  ELSE IF L.use_raw /\ ~ad.raw.present
    THEN [L EXCEPT !.warnings = @ \cup {"raw_none"}, !.use_raw = FALSE]
  ELSE L

\* adata_mraw = self.adata.raw if use_raw else self.adata
MrawX(ad, use_raw) == IF use_raw THEN ad.raw.X ELSE ad.X
MrawGenes(ad, use_raw) == IF use_raw THEN RawGenes ELSE Genes

\* the layer check placed after the count of expressed genes
CheckLayerAfterCount(ad, L) ==
  IF L.exc # "" THEN L
  ELSE IF L.layer \notin {None, "X"} /\ L.layer \notin DOMAIN ad.layers
    THEN [L EXCEPT !.exc = "KeyError:layer",
                   !.num_exp_genes =
                      NumExpGenes(MrawX(ad, L.use_raw), MrawGenes(ad, L.use_raw))]
  ELSE L

\* if layer not in (None, "X") and layer not in self.adata.layers: raise
CheckLayer(ad, L) ==
  IF L.exc # "" THEN L
  ELSE IF L.layer \notin {None, "X"} /\ L.layer \notin DOMAIN ad.layers
    THEN [L EXCEPT !.exc = "KeyError:layer"]
  ELSE L

\* the count written to adata.obs as soon as it is computed
CountGenesWritten(ad, L) ==
  IF L.exc # "" THEN L
  ELSE LET n == NumExpGenes(MrawX(ad, L.use_raw), MrawGenes(ad, L.use_raw))
       IN  [L EXCEPT !.num_exp_genes = n, !.obs = [k \in {KeyNumExpGenes} |-> n]]

\* num_exp_genes = (adata_mraw.X > 0).sum(axis=1)
CountGenes(ad, L) ==
  IF L.exc # "" THEN L
  ELSE [L EXCEPT !.num_exp_genes =
          NumExpGenes(MrawX(ad, L.use_raw), MrawGenes(ad, L.use_raw))]

\* gene_corr = _correlation_test(adata_mraw.X, num_exp_genes, ...)["gene_corr"]
Correlate(ad, L) ==
  IF L.exc # "" THEN L
  ELSE [L EXCEPT !.gene_corr =
          CorrelationTest(MrawX(ad, L.use_raw), L.num_exp_genes, MrawGenes(ad, L.use_raw))]

\* cytotrace_score, pos_top_genes = self._compute_score(..., ascending=False,
\*                                                     n_top_genes=n_pos_genes)
PosScore(ad, L, ordP) ==
  IF L.exc # "" THEN L
  ELSE LET r == compute_score(ad, L.gene_corr, ordP, L.layer, L.aggregation, FALSE, L.n_pos_genes)
       IN  [L EXCEPT !.pos = r,
                     !.warnings = IF r.warned THEN @ \cup {"fewer_pos"} ELSE @,
                     !.exc = IF r.exc = "ok" THEN "" ELSE r.exc,
                     !.cytotrace_score = r.score]

\* the inverse score reflected about its minimum
CombineScoresMin(cytotrace_score, inv_score) ==
  LET m == RMinOf(inv_score)
  IN  Tabulate([c \in Cells |-> RAdd(cytotrace_score[c], RSub(m, inv_score[c]))])

\* cytotrace_score + (np.max(inv_score) - inv_score)
CombineScores(cytotrace_score, inv_score) ==
  LET m == RMaxOf(inv_score)
  IN  Tabulate([c \in Cells |-> RAdd(cytotrace_score[c], RSub(m, inv_score[c]))])

\* if n_neg_genes is not None: inv_score, neg_top_genes = self._compute_score(
\*   ..., ascending=True, n_top_genes=n_neg_genes); combine
NegScore(ad, L, ordN) ==
  IF L.exc # "" \/ L.n_neg_genes = <<>> THEN L
  ELSE LET r == compute_score(ad, L.gene_corr, ordN, L.layer, L.aggregation, TRUE, L.n_neg_genes[1])
       IN  [L EXCEPT !.neg = r,
                     !.warnings = IF r.warned THEN @ \cup {"fewer_neg"} ELSE @,
                     !.exc = IF r.exc = "ok" THEN "" ELSE r.exc,
                     !.cytotrace_score =
                        IF r.exc = "ok" THEN CombineScores(@, r.score) ELSE @]

\* the division by the maximum without the shift by the minimum
NormalizeNoShift(cytotrace_score) ==
  LET hi == RMaxOf(cytotrace_score)
  IN  Tabulate([c \in Cells |-> FDiv(cytotrace_score[c], hi)])

\* cytotrace_score -= cytotrace_score.min(); cytotrace_score /= cytotrace_score.max()
Normalize(cytotrace_score) ==
  LET lo == RMinOf(cytotrace_score)
      shifted == Tabulate([c \in Cells |-> RSub(cytotrace_score[c], lo)])
      hi == RMaxOf(shifted)
  IN  Tabulate([c \in Cells |-> FDiv(shifted[c], hi)])

NormalizeScore(L) ==
  IF L.exc # "" THEN L
  ELSE [L EXCEPT !.combined = L.cytotrace_score,
                 !.cytotrace_score = Normalize(L.cytotrace_score)]

\* the score negated
PseudotimeNegated(cytotrace_score) ==
  Tabulate([c \in Cells |-> IF cytotrace_score[c] = NaN THEN NaN
                            ELSE RSub(RInt(0), cytotrace_score[c])])

\* 1 - cytotrace_score
Pseudotime(cytotrace_score) == Tabulate([c \in Cells |-> OneMinus(cytotrace_score[c])])

\* adata.var[key] = gene_corr: the series is aligned on the variable index
AlignToVar(gene_corr) ==
  Tabulate([g \in Genes |-> IF g \in DOMAIN gene_corr THEN gene_corr[g] ELSE NaN])

\* the writes to adata.obs
PersistObs(L) ==
  IF L.exc # "" THEN L
  ELSE [L EXCEPT !.obs = [k \in CtObsKeys |->
          CASE k = KeyScore -> L.cytotrace_score
            [] k = KeyPseudotime -> Pseudotime(L.cytotrace_score)
            [] k = KeyNumExpGenes -> L.num_exp_genes]]

\* the writes to adata.var
PersistVar(L) ==
  IF L.exc # "" THEN L
  ELSE [L EXCEPT !.var = [k \in CtVarKeys |->
          CASE k = KeyGeneCorr -> AlignToVar(L.gene_corr)
            [] k = KeyPosCorrelates -> [g \in Genes |-> g \in SeqRange(L.pos.top_genes)]
            [] k = KeyNegCorrelates ->
                 [g \in Genes |-> L.n_neg_genes # <<>> /\ g \in SeqRange(L.neg.top_genes)]]]

\* the counts written as they were asked for
PersistUnsRequested(L) ==
  IF L.exc # "" THEN L
  ELSE [L EXCEPT !.uns = [k \in CtUnsKeys |->
          [aggregation |-> L.aggregation, layer |-> L.layer, use_raw |-> L.use_raw,
           n_pos_genes |-> L.n_pos_genes,
           n_neg_genes |-> IF L.n_neg_genes = <<>> THEN 0 ELSE L.n_neg_genes[1]]]]

\* the write to adata.uns
PersistUns(L) ==
  IF L.exc # "" THEN L
  ELSE [L EXCEPT !.uns = [k \in CtUnsKeys |->
          [aggregation |-> L.aggregation, layer |-> L.layer, use_raw |-> L.use_raw,
           n_pos_genes |-> Len(L.pos.top_genes),
           n_neg_genes |-> IF L.n_neg_genes = <<>> THEN 0 ELSE Len(L.neg.top_genes)]]]

\* the statements before the first _compute_score call
Prepare(ad, L) == Correlate(ad, CountGenes(ad, CheckLayer(ad, CheckRaw(ad, CheckAggregation(L)))))

\* the call, statement by statement; the result is the locals at its end
compute_cytotrace(ad, layer, aggregation, use_raw, n_pos_genes, n_neg_genes, ordP, ordN) ==
  LET L0 == Locals(layer, aggregation, use_raw, n_pos_genes, n_neg_genes)
      L2 == Prepare(ad, L0)
      L3 == NegScore(ad, PosScore(ad, L2, ordP), ordN)
      L4 == NormalizeScore(L3)
  IN  PersistUns(PersistVar(PersistObs(L4)))

\* ------------------------------------------------------------------ state
VARIABLES
  X,        \* adata.X: [Cells -> [Genes -> ExprVals]]
  layers,   \* adata.layers: layer name -> matrix
  raw,      \* adata.raw: [present, X] with X over RawGenes
  obsp,     \* adata.obsp: key -> cell-by-cell matrix
  obs,      \* adata.obs: key -> value per cell
  var,      \* adata.var: key -> value per gene
  uns,      \* adata.uns: key -> record
  kernel,   \* the CytoTRACEKernel instance: construction state and fields
  last,     \* the outcome of the last call: exception, log, local arrays
  calls,    \* number of calls made so far
  sel,      \* arguments and result of the last _compute_score call
  norm,     \* argument and result of the last _density_normalize call
  fit,      \* a running _fit_gene_trends call: its locals and its queue
  models,   \* arguments and result of the last _create_models call
  callbacks, \* arguments and result of the last _create_callbacks call
  prev      \* the arguments and tie orders of the first compute_cytotrace call

vars == <<X, layers, raw, obsp, obs, var, uns, kernel, last, calls, sel, norm, fit,
          models, callbacks, prev>>

\* the expression data of the store, which compute_cytotrace reads
Adata == [X |-> X, layers |-> layers, raw |-> raw]

\* ------------------------------------------------------------ input data
\* The expression of a gene over the cells has one of three shapes: the same
\* in all cells, rising with the cell index, falling with the cell index.
Shapes == {"on", "up", "down"}

Min(a, b) == IF a < b THEN a ELSE b

Column(shape, c) ==
  CASE shape = "on" -> MaxExpr
    [] shape = "up" -> Min(c - 1, MaxExpr)
    [] shape = "down" -> Min(NCells - c, MaxExpr)

MatrixOf(shapes) ==
  Tabulate([c \in Cells |-> Tabulate([g \in DOMAIN shapes |-> Column(shapes[g], c)])])

\* an imputed layer as scvelo's moments gives: every cell smoothed with its
\* ring neighbour (weights 2 and 1)
Moments(x) ==
  Tabulate([c \in Cells |-> Tabulate([g \in Genes |-> 2 * x[c][g] + x[(c % NCells) + 1][g]])])

NoRaw == [present |-> FALSE, X |-> <<>>]

\* adata.raw holds the genes of adata and NRawExtra more
RawOf(shapes) == [present |-> TRUE, X |-> MatrixOf(shapes)]

\* the shape of the genes that only adata.raw holds
RawShape == "up"

ShapeRank(shape) == CASE shape = "on" -> 1 [] shape = "up" -> 2 [] shape = "down" -> 3

\* The genes of adata listed by shape: a store with the same genes in
\* another order behaves the same, gene by gene.
GeneShapes ==
  {s \in [Genes -> Shapes] : \A g, h \in Genes : g < h => ShapeRank(s[g]) <= ShapeRank(s[h])}

\* the stores over one primary matrix
DatasetsOf(shapes) ==
  {[X |-> MatrixOf(shapes), layers |-> l, raw |-> r] :
     l \in {<<>>, [k \in {"Ms"} |-> Moments(MatrixOf(shapes))]},
     r \in {NoRaw, RawOf([g \in RawGenes |-> IF g \in Genes THEN shapes[g] ELSE RawShape])}}

Datasets == UNION {DatasetsOf(shapes) : shapes \in GeneShapes}

\* -------------------------------------------------------------- arguments
LayerArgs == {"X", "Ms", None}
AggregationArgs == CytoTRACEAggregation \cup {"max"}
\* n_pos_genes, n_neg_genes: up to more genes than the store holds
NTopArgs == 0..(NGenes + TopExtra)
NNegArgs == {<<>>} \cup {<<n>> : n \in NTopArgs}
CallArgs ==
  [layer : LayerArgs, aggregation : AggregationArgs, use_raw : BOOLEAN,
   n_pos_genes : NTopArgs, n_neg_genes : NNegArgs]

\* The orders a sort can return, one for every top-gene list they give
\* (_compute_score uses the order for that list only).
TopOrders(gene_corr, ascending, n_top_genes) ==
  LET ords == SortValues(gene_corr, ascending)
      tops == {TopGenes(o, Genes, n_top_genes) : o \in ords}
  IN  {CHOOSE o \in ords : TopGenes(o, Genes, n_top_genes) = t : t \in tops}

\* what a caller observes of a call: the exception, the log, and the locals
Computed(L) ==
  {k \in {"num_exp_genes", "gene_corr"} : L[k] # <<>>}
  \cup (IF L.pos.exc = "ok" THEN {"pos_score"} ELSE {})
  \cup (IF L.neg.exc = "ok" THEN {"neg_score"} ELSE {})

LastOf(L) ==
  [exc |-> IF L.exc = "" THEN "ok" ELSE L.exc,
   computed |-> Computed(L), warnings |-> L.warnings,
   neg_given |-> L.n_neg_genes # <<>>,
   use_raw_given |-> L.use_raw_given,
   pos_genes |-> IF L.exc = "" THEN SeqRange(L.pos.top_genes) ELSE {},
   neg_genes |-> IF L.exc = "" THEN SeqRange(L.neg.top_genes) ELSE {},
   pos_score |-> IF L.exc = "" THEN L.pos.score ELSE <<>>,
   neg_score |-> IF L.exc = "" THEN L.neg.score ELSE <<>>,
   combined |-> IF L.exc = "" THEN L.combined ELSE <<>>]

\* the effect of a finished call: its writes and what the caller observes
EffectOf(L) == [obs |-> L.obs, var |-> L.var, uns |-> L.uns, last |-> LastOf(L)]

\* every effect compute_cytotrace(a) can have on the data ad: one per pair of
\* orders the two sorts can return
Outcomes(ad, a) ==
  LET L2 == Prepare(ad, Locals(a.layer, a.aggregation, a.use_raw, a.n_pos_genes, a.n_neg_genes))
      ordsP == IF L2.exc # "" THEN {<<>>}
               ELSE TopOrders(L2.gene_corr, FALSE, a.n_pos_genes)
      ordsN == IF L2.exc # "" \/ a.n_neg_genes = <<>> THEN {<<>>}
               ELSE TopOrders(L2.gene_corr, TRUE, a.n_neg_genes[1])
  IN  {EffectOf(compute_cytotrace(ad, a.layer, a.aggregation, a.use_raw, a.n_pos_genes,
                                  a.n_neg_genes, oP, oN)) : oP \in ordsP, oN \in ordsN}

\* the effects a call of compute_cytotrace can have on the data ad, over all
\* arguments; tabulated once for all stores
CallEffects(ad) == UNION {Outcomes(ad, a) : a \in CallArgs}
EffectTable == Tabulate([ad \in Datasets |-> CallEffects(ad)])

\* ---------------------------------------------------------------- actions
\* kernel.compute_cytotrace(**a), for any arguments a of CallArgs
ComputeCytotrace ==
  /\ calls < MaxCalls
  /\ \E e \in EffectTable[Adata] :
       /\ obs' = Assign(obs, e.obs)
       /\ var' = Assign(var, e.var)
       /\ uns' = Assign(uns, e.uns)
       /\ last' = e.last
       /\ calls' = calls + 1
       /\ UNCHANGED <<X, layers, raw, obsp, kernel, sel, norm, fit, models, callbacks, prev>>

\* --------------------------------------------------- kernel construction
\* The kNN graphs of the store: every cell linked with every other one, a
\* directed chain, the full graph with the last cell cut off, a directed
\* ring, and the full graph with weight 1 forwards and weight 2 backwards.
ConnShapes == {"full", "chain", "isolated", "ring", "skew"}

ConnOf(shape) ==
  Tabulate([i \in Cells |-> Tabulate([j \in Cells |->
    CASE shape = "full" -> IF i # j THEN 1 ELSE 0
      [] shape = "chain" -> IF j = i + 1 THEN 1 ELSE 0
      [] shape = "isolated" -> IF i # j /\ i < NCells /\ j < NCells THEN 1 ELSE 0
      [] shape = "ring" -> IF j = (i % NCells) + 1 THEN 1 ELSE 0
      [] shape = "skew" -> IF i < j THEN 1 ELSE IF i > j THEN 2 ELSE 0])])

ObspStores == {<<>>} \cup {[k \in {"connectivities"} |-> ConnOf(sh)] : sh \in ConnShapes}

\* _get_neighs(adata, mode="connectivities", key=conn_key): the named matrix
\* of adata.obsp, an error if it is absent
GetNeighs(op, key) ==
  IF key \in DOMAIN op THEN [exc |-> "ok", conn |-> op[key]]
  ELSE [exc |-> "KeyError:conn_key", conn |-> <<>>]

\* _symmetric(conn): the matrix equals its transpose
Symmetric(conn) == \A i, j \in Cells : conn[i][j] = conn[j][i]

\* _connected(conn): the undirected graph has one component
RECURSIVE Reach(_, _)
Reach(conn, S) ==
  LET T == S \cup {j \in Cells : \E i \in S : conn[i][j] > 0 \/ conn[j][i] > 0}
  IN  IF T = S THEN S ELSE Reach(conn, T)
Connected(conn) == Reach(conn, {1}) = Cells

\* the symmetry looked at only when check_connectivity is set
ReadConnectivityChecked(op, conn_key, check_connectivity) ==
  LET r == GetNeighs(op, conn_key)
  IN  IF r.exc # "ok"
        THEN [exc |-> r.exc, conn_key |-> conn_key, conn |-> <<>>, warnings |-> {},
              check_connectivity |-> check_connectivity]
      ELSE [exc |-> "ok", conn_key |-> conn_key, conn |-> r.conn,
            warnings |->
              IF check_connectivity
                THEN (IF ~Connected(r.conn) THEN {"not_connected"} ELSE {})
                     \cup (IF ~Symmetric(r.conn) THEN {"not_symmetric"} ELSE {})
                ELSE {},
            check_connectivity |-> check_connectivity]

\* ConnectivityMixin._read_from_adata(conn_key, check_connectivity); the
\* conversion to float64 keeps the entries as they are.  The record keeps
\* check_connectivity as it was given.
ReadConnectivity(op, conn_key, check_connectivity) ==
  LET r == GetNeighs(op, conn_key)
  IN  IF r.exc # "ok"
        THEN [exc |-> r.exc, conn_key |-> conn_key, conn |-> <<>>, warnings |-> {},
              check_connectivity |-> check_connectivity]
      ELSE [exc |-> "ok", conn_key |-> conn_key, conn |-> r.conn,
            warnings |->
              (IF check_connectivity /\ ~Connected(r.conn) THEN {"not_connected"} ELSE {})
              \cup (IF ~Symmetric(r.conn) THEN {"not_symmetric"} ELSE {}),
            check_connectivity |-> check_connectivity]

NoRead == [exc |-> "", conn_key |-> "", conn |-> <<>>, warnings |-> {},
           check_connectivity |-> FALSE]

\* CytoTRACEKernel._read_from_adata: self.compute_cytotrace(...), of effect e,
\* and then super()._read_from_adata(time_key=time_key, **kwargs)
ReadFromAdata(e, op, conn_key, check_connectivity) ==
  IF e.last.exc # "ok"
    THEN [exc |-> e.last.exc, obs |-> e.obs, var |-> e.var, uns |-> e.uns, read |-> NoRead]
  ELSE LET r == ReadConnectivity(op, conn_key, check_connectivity)
       IN  [exc |-> r.exc, obs |-> e.obs, var |-> e.var, uns |-> e.uns, read |-> r]

\* the values given for backward: two booleans and one that is not a boolean
BackwardArgs == {"True", "False", None}
ConnKeyArgs == {"connectivities", "conn_other"}

\* a warning of the read taken as fatal
KernelOfStrict(r, backward) ==
  IF r.exc # "ok" THEN [state |-> "failed", exc |-> r.exc, given |-> backward]
  ELSE IF r.read.warnings # {}
    THEN [state |-> "failed", exc |-> "ValueError:graph", given |-> backward]
  ELSE IF backward \notin {"True", "False"}
    THEN [state |-> "failed", exc |-> "TypeError:backward", given |-> backward]
  ELSE [state |-> "constructed", backward |-> backward, conn_key |-> r.read.conn_key,
        conn |-> r.read.conn, warnings |-> r.read.warnings,
        check_connectivity |-> r.read.check_connectivity, given |-> backward]

\* backward stored without the type check
KernelOfUnchecked(r, backward) ==
  IF r.exc # "ok" THEN [state |-> "failed", exc |-> r.exc, given |-> backward]
  ELSE [state |-> "constructed", backward |-> backward, conn_key |-> r.read.conn_key,
        conn |-> r.read.conn, warnings |-> r.read.warnings,
        check_connectivity |-> r.read.check_connectivity, given |-> backward]

\* BidirectionalMixin.__init__: super().__init__(...), whose outcome is r,
\* then the type check of backward, then self._backward = backward.  The
\* field backward is self._backward; given is the argument as it was passed.
KernelOf(r, backward) ==
  IF r.exc # "ok" THEN [state |-> "failed", exc |-> r.exc, given |-> backward]
  ELSE IF backward \notin {"True", "False"}
    THEN [state |-> "failed", exc |-> "TypeError:backward", given |-> backward]
  ELSE [state |-> "constructed", backward |-> backward, conn_key |-> r.read.conn_key,
        conn |-> r.read.conn, warnings |-> r.read.warnings,
        check_connectivity |-> r.read.check_connectivity, given |-> backward]

\* CytoTRACEKernel(adata, backward, layer, aggregation, use_raw, n_pos_genes,
\*                 n_neg_genes, check_connectivity, conn_key)
Construct ==
  /\ calls < MaxCalls
  /\ kernel.state = "none"
  /\ \E e \in EffectTable[Adata], conn_key \in ConnKeyArgs,
        check_connectivity \in BOOLEAN, backward \in BackwardArgs :
       LET r == ReadFromAdata(e, obsp, conn_key, check_connectivity)
       IN  /\ obs' = Assign(obs, r.obs)
           /\ var' = Assign(var, r.var)
           /\ uns' = Assign(uns, r.uns)
           /\ last' = e.last
           /\ kernel' = KernelOf(r, backward)
           /\ calls' = calls + 1
           /\ UNCHANGED <<X, layers, raw, obsp, sel, norm, fit, models, callbacks, prev>>

\* ---------------------------------------------------- _density_normalize
\* the product of two floats that may be NaN or infinite (inf * 0 is NaN)
FMul(a, b) ==
  IF a = NaN \/ b = NaN THEN NaN
  ELSE IF a[2] = 0 \/ b[2] = 0
    THEN (IF a[1] * b[1] = 0 THEN NaN ELSE IF a[1] * b[1] > 0 THEN PosInf ELSE NegInf)
  ELSE Rat(a[1] * b[1], a[2] * b[2])

\* the sums over axis 1, one per row
RowDegrees(conn) == Tabulate([i \in Cells |-> SeqSum([j \in Cells |-> conn[i][j]])])

\* q = np.asarray(self._conn.sum(axis=0)).squeeze(): one sum per column
Degrees(conn) == Tabulate([j \in Cells |-> SeqSum([i \in Cells |-> conn[i][j]])])

\* the diagonal of Q = spdiags(1.0 / q, 0, n, n)
Reciprocals(q) == Tabulate([i \in Cells |-> FDiv(RInt(1), RInt(q[i]))])

\* the matrices given to _density_normalize: the kNN graphs, the identity
\* and the matrix of ones, each as np.ndarray or as sparse matrix
NormMatrices ==
  {ConnOf(sh) : sh \in ConnShapes}
  \cup {Tabulate([i \in Cells |-> Tabulate([j \in Cells |-> IF i = j THEN 1 ELSE 0])]),
        Tabulate([i \in Cells |-> Tabulate([j \in Cells |-> 1])])}
MatrixKinds == {"dense", "sparse"}

\* Q @ matrix.T @ Q
density_normalize_transposed(conn, matrix, kind) ==
  LET Q == Reciprocals(Degrees(conn))
  IN  Tabulate([i \in Cells |-> Tabulate([j \in Cells |->
        IF kind = "sparse" /\ matrix[j][i] = 0 THEN RInt(0)
        ELSE FMul(FMul(Q[i], RInt(matrix[j][i])), Q[j])])])

\* Q @ matrix @ Q.  The products with the sparse diagonal Q touch the stored
\* entries only: every entry of an np.ndarray, the non-zero entries of a
\* sparse matrix.
density_normalize(conn, matrix, kind) ==
  LET Q == Reciprocals(Degrees(conn))
  IN  Tabulate([i \in Cells |-> Tabulate([j \in Cells |->
        IF kind = "sparse" /\ matrix[i][j] = 0 THEN RInt(0)
        ELSE FMul(FMul(Q[i], RInt(matrix[i][j])), Q[j])])])

\* kernel._density_normalize(matrix) on a constructed kernel: returns
\* without raising
DensityNormalize ==
  /\ kernel.state = "constructed"
  /\ \E matrix \in NormMatrices, kind \in MatrixKinds :
       norm' = [called |-> TRUE, matrix |-> matrix, kind |-> kind, exc |-> "ok",
                result |-> density_normalize(kernel.conn, matrix, kind)]
  /\ UNCHANGED <<X, layers, raw, obsp, obs, var, uns, kernel, last, calls, sel, fit, models, callbacks, prev>>

\* ------------------------------------------------ _compute_score by itself
\* the correlation values given to _compute_score: NaN and the multiples of
\* 1/CorrLevels in [-1, 1]
CorrVals == {NaN} \cup {Rat(k, CorrLevels) : k \in (-CorrLevels)..CorrLevels}

\* gene_corr is indexed by the genes of adata, or by those of adata.raw
GeneCorrs == [Genes -> CorrVals] \cup [RawGenes -> CorrVals]

\* self._compute_score(gene_corr, layer=..., aggregation=..., ascending=...,
\*                     n_top_genes=...), for every order the sort can return
ComputeScore ==
  /\ calls < MaxCalls
  /\ "gene_corr" \in DOMAIN sel
  /\ ~sel.called
  /\ \E ascending \in BOOLEAN, n_top_genes \in NTopArgs,
        layer \in LayerArgs, aggregation \in AggregationArgs :
       \E order \in SortValues(sel.gene_corr, ascending) :
         LET r == compute_score(Adata, sel.gene_corr, order, layer, aggregation,
                                ascending, n_top_genes)
         IN  /\ sel' = [called |-> TRUE, gene_corr |-> sel.gene_corr,
                        ascending |-> ascending, n_top_genes |-> n_top_genes,
                        layer |-> layer, aggregation |-> aggregation,
                        exc |-> r.exc, top_genes |-> r.top_genes,
                        score |-> r.score, warned |-> r.warned]
             /\ calls' = calls + 1
             /\ UNCHANGED <<X, layers, raw, obsp, obs, var, uns, kernel, last, norm, fit, models, callbacks, prev>>

\* ------------------------------------------------------- _fit_gene_trends
\* The worker of the parallel model fitting: for each gene, for each pair of
\* zip(lineages, time_range), the callback prepares the model, the model is
\* fitted and predicted (and its confidence interval computed when asked),
\* then one signal is put on the queue; a final None ends the messages.  A
\* gene is its position in genes, a lineage its position in the zip.
Signal == "1"
Sentinel == "None"

\* the state of a call at its first statement (res = {}, conf_int popped)
FitLocals(genes, lineages, has_queue, conf_int) ==
  [state |-> "running", genes |-> genes, lineages |-> lineages,
   has_queue |-> has_queue, conf_int |-> conf_int,
   gene |-> 1, ln |-> 1, pc |-> "gene",
   keys |-> {}, res |-> {},
   prepared |-> {}, fitted |-> {}, predicted |-> {}, intervals |-> {},
   queue |-> <<>>]

\* an exception ends the call with the sentinel still put
RaisedWithSentinel(f) ==
  [f EXCEPT !.state = "raised", !.pc = "raised",
            !.queue = IF f.has_queue THEN Append(@, Sentinel) ELSE @]

\* an exception of a callback or of a model method leaves the function
Raised(f) == [f EXCEPT !.state = "raised", !.pc = "raised"]

\* for ln, tr in zip(lineages, time_range): the next pair, or the end of the
\* inner loop
EnterLineage(f) ==
  IF f.ln <= f.lineages THEN [f EXCEPT !.pc = "prepare"]
  ELSE [f EXCEPT !.pc = "signal"]

\* for gene in genes: res[gene] = {} and the inner loop, or the end of the
\* outer loop
EnterGene(f) ==
  IF f.gene <= f.genes
  THEN EnterLineage([f EXCEPT !.ln = 1, !.keys = @ \cup {f.gene}])
  ELSE [f EXCEPT !.pc = "final"]

\* res[gene][ln] = model, then the next pair of the zip
StoreModel(f) ==
  EnterLineage([f EXCEPT !.res = @ \cup {<<f.gene, f.ln>>}, !.ln = @ + 1])

\* the call: genes, lineages (zipped with time_range), queue and conf_int
FitGeneTrends ==
  /\ fit.state = "none"
  /\ \E genes \in 0..MaxFitGenes, lineages \in 0..MaxFitLineages,
        has_queue \in BOOLEAN, conf_int \in BOOLEAN :
       fit' = EnterGene(FitLocals(genes, lineages, has_queue, conf_int))
  /\ UNCHANGED <<X, layers, raw, obsp, obs, var, uns, kernel, last, calls, sel, norm, models, callbacks, prev>>

\* cb(models[gene][ln], gene=gene, lineage=ln, time_range=tr, **kwargs)
FitPrepare ==
  /\ fit.state = "running" /\ fit.pc = "prepare"
  /\ \E ok \in BOOLEAN :
       fit' = IF ok THEN [fit EXCEPT !.prepared = @ \cup {<<fit.gene, fit.ln>>}, !.pc = "fit"]
              ELSE Raised(fit)
  /\ UNCHANGED <<X, layers, raw, obsp, obs, var, uns, kernel, last, calls, sel, norm, models, callbacks, prev>>

\* .fit()
FitModel ==
  /\ fit.state = "running" /\ fit.pc = "fit"
  /\ \E ok \in BOOLEAN :
       fit' = IF ok THEN [fit EXCEPT !.fitted = @ \cup {<<fit.gene, fit.ln>>}, !.pc = "predict"]
              ELSE Raised(fit)
  /\ UNCHANGED <<X, layers, raw, obsp, obs, var, uns, kernel, last, calls, sel, norm, models, callbacks, prev>>

\* model.predict(), and the store of the model when no interval is asked
FitPredict ==
  /\ fit.state = "running" /\ fit.pc = "predict"
  /\ \E ok \in BOOLEAN :
       fit' = IF ~ok THEN Raised(fit)
              ELSE LET f == [fit EXCEPT !.predicted = @ \cup {<<fit.gene, fit.ln>>}]
                   IN IF f.conf_int THEN [f EXCEPT !.pc = "conf_int"] ELSE StoreModel(f)
  /\ UNCHANGED <<X, layers, raw, obsp, obs, var, uns, kernel, last, calls, sel, norm, models, callbacks, prev>>

\* if conf_int: model.confidence_interval(), then the store of the model
FitConfidenceInterval ==
  /\ fit.state = "running" /\ fit.pc = "conf_int"
  /\ \E ok \in BOOLEAN :
       fit' = IF ~ok THEN Raised(fit)
              ELSE StoreModel([fit EXCEPT !.intervals = @ \cup {<<fit.gene, fit.ln>>}])
  /\ UNCHANGED <<X, layers, raw, obsp, obs, var, uns, kernel, last, calls, sel, norm, models, callbacks, prev>>

\* if queue is not None: queue.put(1), at the end of a gene's inner loop
FitSignal ==
  /\ fit.state = "running" /\ fit.pc = "signal"
  /\ fit' = EnterGene([fit EXCEPT !.queue = IF fit.has_queue THEN Append(@, Signal) ELSE @,
                                  !.gene = @ + 1])
  /\ UNCHANGED <<X, layers, raw, obsp, obs, var, uns, kernel, last, calls, sel, norm, models, callbacks, prev>>

\* if queue is not None: queue.put(None); return res
FitReturn ==
  /\ fit.state = "running" /\ fit.pc = "final"
  /\ fit' = [fit EXCEPT !.queue = IF fit.has_queue THEN Append(@, Sentinel) ELSE @,
                        !.state = "done", !.pc = "done"]
  /\ UNCHANGED <<X, layers, raw, obsp, obs, var, uns, kernel, last, calls, sel, norm, models, callbacks, prev>>

\* --------------------------------------------------------- _create_models
\* The specification of the models is a BaseModel, or a dictionary from
\* gene names and "*" to a BaseModel or to a dictionary from lineage names
\* and "*" to models.  Names are numbers and Star is the key "*".  A model
\* of the result is named by the place of the specification it was copied
\* from: <<>> the single model, <<g>> the model given for gene key g,
\* <<g, l>> the model given for lineage key l of gene key g.
Star == 0
ObsNames == 1..NModelGenes
LinNames == 1..NModelLineages

LinSpecs ==
  {[kind |-> "model"]} \cup
  {[kind |-> "dict", keys |-> ks] : ks \in SUBSET (LinNames \cup {Star})}

DictSpecs ==
  {[kind |-> "dict", items |-> f] :
     f \in UNION {[ks -> LinSpecs] : ks \in SUBSET (ObsNames \cup {Star})}}

ModelSpecs == {[kind |-> "model"], [kind |-> "other"]} \cup DictSpecs

\* process_lineages(obs_name, lin_names) of _create_models on the empty
\* models[obs_name]: the row of the gene, or the error; models is a
\* defaultdict, so the gene is a key of it once models[obs_name] was touched
ModelRow(lin_names, lineages, origin) ==
  IF lin_names.kind = "model"
  THEN [exc |-> "ok", touched |-> lineages # {},
        row |-> [l \in lineages |-> <<origin>>]]
  ELSE LET explicit == lin_names.keys \ {Star}
       IN  IF Star \in lin_names.keys
           THEN [exc |-> "ok", touched |-> TRUE,
                 row |-> [l \in explicit \cup lineages |->
                            IF l \in explicit THEN <<origin, l>> ELSE <<origin, Star>>]]
           ELSE [exc |-> "RuntimeError:lineage", touched |-> TRUE,
                 row |-> [l \in explicit |-> <<origin, l>>]]

\* _create_models(model, obs, lineages), obs and lineages as the sets of
\* their distinct names
create_models(model, obs_names, lineages) ==
  IF model.kind = "model"
  THEN [exc |-> "ok", models |-> [o \in obs_names |-> [l \in lineages |-> <<>>]]]
  ELSE IF model.kind # "dict" THEN [exc |-> "TypeError", models |-> <<>>]
  ELSE
    LET items == model.items
        has_rest == Star \in DOMAIN items
        keys == DOMAIN items \ {Star}
        given == [k \in keys |-> ModelRow(items[k], lineages, k)]
        rest == [o \in obs_names \ keys |-> ModelRow(items[Star], lineages, Star)]
    IN  IF \E k \in keys : given[k].exc # "ok"
        THEN [exc |-> "RuntimeError:lineage", models |-> <<>>]
        ELSE IF has_rest
        THEN IF \E o \in obs_names \ keys : rest[o].exc # "ok"
             THEN [exc |-> "RuntimeError:lineage", models |-> <<>>]
             ELSE [exc |-> "ok",
                   models |-> [o \in {k \in keys : given[k].touched}
                                       \cup {k \in obs_names \ keys : rest[k].touched} |->
                                 IF o \in keys THEN given[o].row ELSE rest[o].row]]
        ELSE IF keys # obs_names
        THEN [exc |-> "RuntimeError:genes", models |-> <<>>]
        ELSE [exc |-> "ok", models |-> [o \in {k \in keys : given[k].touched} |-> given[o].row]]

\* one call of _create_models
CreateModels ==
  /\ ~models.called
  /\ \E model \in ModelSpecs, o \in SUBSET ObsNames, lineages \in SUBSET LinNames :
       LET r == create_models(model, o, lineages)
       IN  models' = [called |-> TRUE, model |-> model, obs |-> o, lineages |-> lineages,
                      exc |-> r.exc, result |-> r.models]
  /\ UNCHANGED <<X, layers, raw, obsp, obs, var, uns, kernel, last, calls, sel, norm, fit,
                 callbacks, prev>>

\* ------------------------------------------------------ _create_callbacks
\* The specification of the callbacks is None, a callable, or a dictionary
\* from gene names and "*" to None, a callable, or a dictionary from lineage
\* names to callables whose "*" entry is absent, None, a callable or some
\* other object.  A callback of the result is named by the place it was
\* taken from, as the models are; Default is _default_model_callback.
Default == <<-1>>
StarValues == {"absent", "none", "callable", "other"}

CbLinSpecs ==
  {[kind |-> "none"], [kind |-> "callable"]} \cup
  {[kind |-> "dict", keys |-> ks, star |-> st] : ks \in SUBSET LinNames, st \in StarValues}

CbDictSpecs ==
  {[kind |-> "dict", items |-> f] :
     f \in UNION {[ks -> CbLinSpecs] : ks \in SUBSET (ObsNames \cup {Star})}}

CallbackSpecs == {[kind |-> "none"], [kind |-> "callable"], [kind |-> "other"]} \cup CbDictSpecs

\* perform_sanity_check and what the callbacks do on the dummy model: the
\* check is skipped, every callback passes it, or one of them fails it
SanityArgs == {"skip", "pass", "fail"}

\* process_lineages(obs_name, lin_names) of _create_callbacks on the empty
\* callbacks[obs_name]
CallbackRow(lin_names, lineages, origin) ==
  IF lin_names.kind = "none"
  THEN [exc |-> "ok", touched |-> lineages # {}, row |-> [l \in lineages |-> Default]]
  ELSE IF lin_names.kind = "callable"
  THEN [exc |-> "ok", touched |-> lineages # {}, row |-> [l \in lineages |-> <<origin>>]]
  ELSE LET explicit == lin_names.keys
           lin_rest_callback == IF lin_names.star \in {"absent", "none"} THEN Default
                                ELSE <<origin, Star>>
       IN  IF lin_names.star # "other"
           THEN [exc |-> "ok", touched |-> TRUE,
                 row |-> [l \in explicit \cup lineages |->
                            IF l \in explicit THEN <<origin, l>> ELSE lin_rest_callback]]
           ELSE [exc |-> "TypeError:lineage", touched |-> explicit # {},
                 row |-> [l \in explicit |-> <<origin, l>>]]

\* maybe_sanity_check(callbacks): every callback of the map is run on a
\* dummy model; nothing is run for an empty map
maybe_sanity_check(cbs, sanity) ==
  IF sanity = "fail" /\ \E g \in DOMAIN cbs : DOMAIN cbs[g] # {}
  THEN [exc |-> "RuntimeError:validation", callbacks |-> <<>>]
  ELSE [exc |-> "ok", callbacks |-> cbs]

\* _create_callbacks(adata, callback, obs, lineages, perform_sanity_check)
create_callbacks(callback, obs_names, lineages, sanity) ==
  IF callback.kind \in {"none", "callable"}
  THEN maybe_sanity_check(
         [o \in obs_names |-> [l \in lineages |->
            IF callback.kind = "none" THEN Default ELSE <<>>]], sanity)
  ELSE IF callback.kind # "dict" THEN [exc |-> "TypeError", callbacks |-> <<>>]
  ELSE
    LET items == callback.items
        \* the loop over callback.items() runs before "*" is popped
        given == [k \in DOMAIN items |-> CallbackRow(items[k], lineages, k)]
        keys == DOMAIN items \ {Star}
        rest_callable == Star \notin DOMAIN items \/ items[Star].kind # "dict"
        obs_rest_callback ==
          IF Star \in DOMAIN items /\ items[Star].kind = "callable"
          THEN [kind |-> "callable"] ELSE [kind |-> "none"]
        rest == [o \in obs_names \ keys |-> CallbackRow(obs_rest_callback, lineages, Star)]
    IN  IF \E k \in DOMAIN items : given[k].exc # "ok"
        THEN [exc |-> "TypeError:lineage", callbacks |-> <<>>]
        ELSE IF ~rest_callable
        THEN [exc |-> "TypeError:genes", callbacks |-> <<>>]
        ELSE maybe_sanity_check(
               [o \in {k \in DOMAIN items : given[k].touched}
                        \cup {k \in obs_names \ keys : rest[k].touched} |->
                  IF o \in obs_names \ keys THEN rest[o].row ELSE given[o].row], sanity)

\* one call of _create_callbacks
CreateCallbacks ==
  /\ ~callbacks.called
  /\ \E callback \in CallbackSpecs, o \in SUBSET ObsNames, lineages \in SUBSET LinNames,
        sanity \in SanityArgs :
       LET r == create_callbacks(callback, o, lineages, sanity)
       IN  callbacks' = [called |-> TRUE, callback |-> callback, obs |-> o,
                         lineages |-> lineages, sanity |-> sanity,
                         exc |-> r.exc, result |-> r.callbacks]
  /\ UNCHANGED <<X, layers, raw, obsp, obs, var, uns, kernel, last, calls, sel, norm, fit,
                 models, prev>>

\* ----------------------------------------------- the same call made again
\* the sort orders a call with arguments a can take on the data ad
CallOrders(ad, a) ==
  LET L2 == Prepare(ad, Locals(a.layer, a.aggregation, a.use_raw, a.n_pos_genes, a.n_neg_genes))
  IN  [pos |-> IF L2.exc # "" THEN {<<>>}
               ELSE TopOrders(L2.gene_corr, FALSE, a.n_pos_genes),
       neg |-> IF L2.exc # "" \/ a.n_neg_genes = <<>> THEN {<<>>}
               ELSE TopOrders(L2.gene_corr, TRUE, a.n_neg_genes[1])]

\* the call adds its gene counts to those the store holds already
CallEffectOnStore(ad, a, oP, oN) ==
  LET e == EffectOf(compute_cytotrace(ad, a.layer, a.aggregation, a.use_raw, a.n_pos_genes,
                                      a.n_neg_genes, oP, oN))
  IN  IF e.last.exc = "ok" /\ KeyNumExpGenes \in DOMAIN obs
      THEN [e EXCEPT !.obs[KeyNumExpGenes] =
              [c \in Cells |-> obs[KeyNumExpGenes][c] + e.obs[KeyNumExpGenes][c]]]
      ELSE e

\* the effect of compute_cytotrace(**a) on the data ad when its two sorts
\* return the orders oP and oN
CallEffect(ad, a, oP, oN) ==
  EffectOf(compute_cytotrace(ad, a.layer, a.aggregation, a.use_raw, a.n_pos_genes,
                             a.n_neg_genes, oP, oN))

\* kernel.compute_cytotrace(**a), the first call on the store
ComputeCytotraceFirst ==
  /\ calls < MaxCalls
  /\ ~prev.called
  /\ \E a \in CallArgs :
       \E oP \in CallOrders(Adata, a).pos, oN \in CallOrders(Adata, a).neg :
         LET e == CallEffect(Adata, a, oP, oN)
         IN  /\ obs' = Assign(obs, e.obs)
             /\ var' = Assign(var, e.var)
             /\ uns' = Assign(uns, e.uns)
             /\ last' = e.last
             /\ prev' = [called |-> TRUE, args |-> a, ordP |-> oP, ordN |-> oN]
  /\ calls' = calls + 1
  /\ UNCHANGED <<X, layers, raw, obsp, kernel, sel, norm, fit, models, callbacks>>

\* kernel.compute_cytotrace(**a) again, with the arguments of the call
\* before; the sorts see the same correlations and return the same orders
ComputeCytotraceAgain ==
  /\ calls < MaxCalls
  /\ prev.called
  /\ LET e == CallEffect(Adata, prev.args, prev.ordP, prev.ordN)
     IN  /\ obs' = Assign(obs, e.obs)
         /\ var' = Assign(var, e.var)
         /\ uns' = Assign(uns, e.uns)
         /\ last' = e.last
  /\ calls' = calls + 1
  /\ UNCHANGED <<X, layers, raw, obsp, kernel, sel, norm, fit, models, callbacks, prev>>

\* ------------------------------------------------------------------- Init
InitLast ==
  [exc |-> "none", computed |-> {}, warnings |-> {},
   neg_given |-> FALSE, use_raw_given |-> FALSE, pos_genes |-> {}, neg_genes |-> {},
   pos_score |-> <<>>, neg_score |-> <<>>, combined |-> <<>>]

NoSel == [called |-> FALSE]
NoNorm == [called |-> FALSE]
NoFit == [state |-> "none"]
NoModels == [called |-> FALSE]
NoCallbacks == [called |-> FALSE]
NoPrev == [called |-> FALSE]

\* a store that holds none of the cytotrace keys yet
InitStore ==
  /\ \E ad \in Datasets : X = ad.X /\ layers = ad.layers /\ raw = ad.raw
  /\ obs = [k \in {"clusters"} |-> [c \in Cells |-> "a"]]
  /\ var = [k \in {"highly_variable"} |-> [g \in Genes |-> TRUE]]
  /\ uns = [k \in {"neighbors"} |-> [n_neighbors |-> 30]]
  /\ last = InitLast
  /\ calls = 0
  /\ norm = NoNorm
  /\ fit = NoFit
  /\ models = NoModels
  /\ callbacks = NoCallbacks
  /\ prev = NoPrev

\* calls of compute_cytotrace on a store
Init ==
  /\ InitStore
  /\ obsp = [k \in {"connectivities"} |-> ConnOf("full")]
  /\ kernel = [state |-> "none"]
  /\ sel = NoSel

Next == ComputeCytotrace

Spec == Init /\ [][Next]_vars

\* the construction of a kernel on a store with or without a kNN graph
InitKernel ==
  /\ InitStore
  /\ obsp \in ObspStores
  /\ kernel = [state |-> "none"]
  /\ sel = NoSel

NextKernel == Construct

SpecKernel == InitKernel /\ [][NextKernel]_vars

\* the construction of a kernel and calls of _density_normalize on it, on a
\* store without layers and raw matrix whose genes all rise with the cell index
InitNorm ==
  /\ InitKernel
  /\ X = MatrixOf([g \in Genes |-> "up"])
  /\ layers = <<>>
  /\ raw = NoRaw

NextNorm == Construct \/ DensityNormalize

SpecNorm == InitNorm /\ [][NextNorm]_vars

\* one call of _compute_score on a store whose genes all rise with the cell
\* index, with and without the layer "Ms", for every gene_corr
InitScore ==
  /\ InitStore
  /\ X = MatrixOf([g \in Genes |-> "up"])
  /\ raw = NoRaw
  /\ obsp = <<>>
  /\ kernel = [state |-> "none"]
  /\ sel \in {[called |-> FALSE, gene_corr |-> gc] : gc \in GeneCorrs}

NextScore == ComputeScore

SpecScore == InitScore /\ [][NextScore]_vars

\* _fit_gene_trends reads no part of the store: one fixed store, no kernel
InitFit ==
  /\ InitNorm
  /\ obsp = <<>>

NextFit ==
  \/ FitGeneTrends
  \/ FitPrepare
  \/ FitModel
  \/ FitPredict
  \/ FitConfidenceInterval
  \/ FitSignal
  \/ FitReturn

SpecFit == InitFit /\ [][NextFit]_vars

\* a call of compute_cytotrace followed by the same call
NextRepeat == ComputeCytotraceFirst \/ ComputeCytotraceAgain

SpecRepeat == Init /\ [][NextRepeat]_vars

\* _create_models reads no part of the store
InitModels == InitFit

NextModels == CreateModels

SpecModels == InitModels /\ [][NextModels]_vars

\* _create_callbacks reads the store only through the callbacks it validates
InitCallbacks == InitFit

NextCallbacks == CreateCallbacks

SpecCallbacks == InitCallbacks /\ [][NextCallbacks]_vars

\* ===================================================== properties of Spec
IsFinite(x) == x[2] # 0
IsFailure(l) == l.exc \notin {"ok", "none"}
AllEqual(f) == \A c, d \in DOMAIN f : f[c] = f[d]
HasCytotraceKeys ==
  /\ CtObsKeys \subseteq DOMAIN obs
  /\ CtVarKeys \subseteq DOMAIN var
  /\ CtUnsKeys \subseteq DOMAIN uns

\* C1: a call of compute_cytotrace that raises leaves adata.obs, adata.var
\* and adata.uns exactly as they were: none of the seven keys is created or
\* changed by it.
C1_FailureLeavesStore ==
  [][(calls' = calls + 1 /\ IsFailure(last')) =>
       (obs' = obs /\ var' = var /\ uns' = uns)]_vars

\* a call has failed after the count and the correlation were computed, on a
\* store that holds the keys of an earlier successful call
C1_Witness ==
  /\ last.exc = "ValueError:NaN"
  /\ "gene_corr" \in last.computed
  /\ HasCytotraceKeys

\* C2 as stated: an invalid aggregation, an unknown layer name and a
\* non-positive n_pos_genes or n_neg_genes are raised before anything is
\* computed.
C2_ConfigErrorsBeforeComputation ==
  last.exc \in {"ValueError:aggregation", "KeyError:layer",
                "ValueError:n_pos_genes", "ValueError:n_neg_genes"}
    => last.computed = {}

\* C2, amended: an invalid aggregation and an unknown layer name are raised
\* before anything is computed; a non-positive n_pos_genes is raised after
\* the count and the correlation are computed and before any score; a
\* non-positive n_neg_genes is raised after the positive score is computed.
C2_ConfigErrorsOrder ==
  /\ last.exc \in {"ValueError:aggregation", "KeyError:layer"} => last.computed = {}
  /\ last.exc = "ValueError:n_pos_genes" => last.computed = {"num_exp_genes", "gene_corr"}
  /\ last.exc = "ValueError:n_neg_genes"
       => last.computed = {"num_exp_genes", "gene_corr", "pos_score"}

\* the layer is unknown and the call has failed for it
C2_Witness ==
  /\ last.exc = "KeyError:layer"
  /\ "Ms" \notin DOMAIN layers

\* C4: after a successful call whose combined score is not the same in all
\* cells, the persisted score lies in [0, 1], its minimum is 0 and its
\* maximum is 1.
C4_ScoreSpansUnitInterval ==
  (last.exc = "ok" /\ ~AllEqual(last.combined)) =>
    /\ \A c \in Cells : /\ IsFinite(obs[KeyScore][c])
                        /\ RLeq(RInt(0), obs[KeyScore][c])
                        /\ RLeq(obs[KeyScore][c], RInt(1))
    /\ \E c \in Cells : obs[KeyScore][c] = RInt(0)
    /\ \E c \in Cells : obs[KeyScore][c] = RInt(1)

\* a successful call whose combined score differs between the cells and has
\* a minimum other than 0
C4_Witness ==
  /\ last.exc = "ok"
  /\ ~AllEqual(last.combined)
  /\ \A c \in Cells : last.combined[c] # RInt(0)
  /\ \E c \in Cells : obs[KeyScore][c] = RInt(0)

\* C5: the persisted score and pseudotime are never NaN or infinite, also
\* when the combined score is the same in all cells.
C5_ScoreDefined ==
  /\ KeyScore \in DOMAIN obs => \A c \in Cells : IsFinite(obs[KeyScore][c])
  /\ KeyPseudotime \in DOMAIN obs => \A c \in Cells : IsFinite(obs[KeyPseudotime][c])

\* C6: whenever the score and the pseudotime are in adata.obs, the
\* pseudotime of every cell is 1 minus its score, after any sequence of
\* calls, failing ones included.
C6_PseudotimeIsComplement ==
  (KeyScore \in DOMAIN obs /\ KeyPseudotime \in DOMAIN obs) =>
    \A c \in Cells : obs[KeyPseudotime][c] = OneMinus(obs[KeyScore][c])

\* both keys are in adata.obs with a score that differs between the cells,
\* and a later call has failed
C6_Witness ==
  /\ IsFailure(last)
  /\ KeyScore \in DOMAIN obs /\ KeyPseudotime \in DOMAIN obs
  /\ \E c, d \in Cells : obs[KeyScore][c] = RInt(0) /\ obs[KeyPseudotime][d] = RInt(0)

\* C10: with n_neg_genes given the score before normalization is, cell by
\* cell, pos_score + (max(neg_score) - neg_score); with n_neg_genes None it is
\* pos_score and the negative selection is not run.
C10_CombinedScore ==
  /\ (last.exc = "ok" /\ last.neg_given) =>
       \A c \in Cells :
         \E m \in {last.neg_score[d] : d \in Cells} :
           /\ \A d \in Cells : RLeq(last.neg_score[d], m)
           /\ last.combined[c] = RAdd(last.pos_score[c], RSub(m, last.neg_score[c]))
  /\ (last.exc = "ok" /\ ~last.neg_given) => last.combined = last.pos_score
  /\ ~last.neg_given =>
       /\ "neg_score" \notin last.computed
       /\ "fewer_neg" \notin last.warnings
       /\ last.exc # "ValueError:n_neg_genes"

\* a successful call with n_neg_genes given whose negative score differs
\* between the cells
C10_Witness ==
  /\ last.exc = "ok"
  /\ last.neg_given
  /\ ~AllEqual(last.neg_score)
  /\ ~AllEqual(last.combined)

\* the exceptions compute_cytotrace and _compute_score raise
KnownErrors ==
  {"ValueError:aggregation", "KeyError:layer", "ValueError:n_pos_genes",
   "ValueError:n_neg_genes", "ValueError:NaN", "ValueError:empty", "KeyError:layers",
   "NotImplementedError"}

\* C17: a call with use_raw true on a store without raw matrix does not fail
\* for it; if the call succeeds it has warned, has counted and correlated
\* the genes of the primary matrix, and the params record has use_raw false.
C17_RawFallback ==
  (last.use_raw_given /\ ~raw.present) =>
    /\ last.exc \in {"ok"} \cup KnownErrors
    /\ "gene_corr" \in last.computed => "raw_none" \in last.warnings
    /\ last.exc = "ok" =>
         /\ uns[KeyParams].use_raw = FALSE
         /\ \A c \in Cells :
              obs[KeyNumExpGenes][c] = Cardinality({g \in Genes : X[c][g] > 0})
         /\ var[KeyGeneCorr] = CorrelationTest(X, obs[KeyNumExpGenes], Genes)

\* a call with use_raw true has succeeded on a store without raw matrix
C17_Witness ==
  /\ last.use_raw_given /\ ~raw.present
  /\ last.exc = "ok"
  /\ "raw_none" \in last.warnings
  /\ ~uns[KeyParams].use_raw

\* C18: after a successful call the per-gene flags and the params record
\* describe that call only: pos_correlates marks the genes of its positive
\* selection, neg_correlates those of its negative selection (none when
\* n_neg_genes was None), and the counts are the numbers of genes used.
C18_FlagsDescribeLatestCall ==
  last.exc = "ok" =>
    /\ \A g \in Genes : var[KeyPosCorrelates][g] <=> g \in last.pos_genes
    /\ \A g \in Genes : var[KeyNegCorrelates][g] <=> (last.neg_given /\ g \in last.neg_genes)
    /\ uns[KeyParams].n_pos_genes = Cardinality(last.pos_genes)
    /\ uns[KeyParams].n_neg_genes = IF last.neg_given THEN Cardinality(last.neg_genes) ELSE 0

\* the second call has succeeded without n_neg_genes and has selected one
\* gene of several
C18_Witness ==
  /\ calls = 2
  /\ last.exc = "ok" /\ ~last.neg_given
  /\ Cardinality(last.pos_genes) = 1
  /\ \A g \in Genes : ~var[KeyNegCorrelates][g]
  /\ uns[KeyParams].n_neg_genes = 0

\* the entries of a frame f outside the keys ks are the same in frame g, and
\* g has no key beyond those of f and ks
SameOutside(f, g, ks) ==
  /\ DOMAIN g \subseteq DOMAIN f \cup ks
  /\ \A k \in DOMAIN f \ ks : k \in DOMAIN g /\ g[k] = f[k]

\* C19: a successful compute_cytotrace call changes only the seven cytotrace
\* keys of obs, var and uns; X, raw, the layers, the connectivities and
\* every other obs, var and uns entry are as they were before the call.
C19_OnlyCytotraceKeysChange ==
  [][(calls' = calls + 1 /\ last'.exc = "ok") =>
       /\ X' = X /\ raw' = raw /\ layers' = layers /\ obsp' = obsp
       /\ SameOutside(obs, obs', CtObsKeys)
       /\ SameOutside(var, var', CtVarKeys)
       /\ SameOutside(uns, uns', CtUnsKeys)]_vars

\* a call has succeeded on a store with a raw matrix, a layer, a
\* connectivity matrix and foreign obs, var and uns entries, all still there
C19_Witness ==
  /\ last.exc = "ok" /\ calls = 1
  /\ HasCytotraceKeys
  /\ raw.present /\ DOMAIN layers # {} /\ "connectivities" \in DOMAIN obsp
  /\ "clusters" \in DOMAIN obs /\ "highly_variable" \in DOMAIN var /\ "neighbors" \in DOMAIN uns

\* =============================================== properties of SpecKernel
\* C3: when the construction of a kernel fails because the named
\* connectivity matrix is absent, no cytotrace key has been written to the
\* store.
C3_NoKeyWrittenOnReadFailure ==
  (kernel.state = "failed" /\ kernel.exc = "KeyError:conn_key") =>
    /\ CtObsKeys \cap DOMAIN obs = {}
    /\ CtVarKeys \cap DOMAIN var = {}
    /\ CtUnsKeys \cap DOMAIN uns = {}

\* the stored kNN graph has an edge i -> j with another weight than j -> i
Asymmetric == \E i, j \in Cells : kernel.conn[i][j] # kernel.conn[j][i]

C15_ConnectivityWarning ==
  /\ kernel.state = "constructed" =>
       /\ "not_connected" \in kernel.warnings =>
            (kernel.check_connectivity /\ ~Connected(kernel.conn))
       /\ kernel.conn_key \in DOMAIN obsp
       /\ kernel.conn = obsp[kernel.conn_key]
  /\ kernel.state = "failed" =>
       kernel.exc \in {last.exc, "KeyError:conn_key", "TypeError:backward"}

\* a kernel was constructed on a graph that is not connected, with the
\* warning given
C15_Witness ==
  /\ kernel.state = "constructed"
  /\ "not_connected" \in kernel.warnings
  /\ kernel.conn = obsp["connectivities"]

\* ================================================ properties of SpecScore
\* the genes of adata with a defined correlation
ValidGenes == {g \in Genes : sel.gene_corr[g] # NaN}

\* a is not after b in the direction of the sort (both defined)
InDirection(a, b) == IF sel.ascending THEN RLeq(a, b) ELSE RLeq(b, a)

\* the order a stable sort returns: ties in index order
StableOrder(gene_corr, ascending) ==
  CHOOSE p \in SortValues(gene_corr, ascending) :
    \A i, j \in DOMAIN p : (i < j /\ gene_corr[p[i]] = gene_corr[p[j]]) => p[i] < p[j]

\* C7: whenever _compute_score does not raise, the selected list has at most
\* n_top_genes entries, every entry is a gene of adata.var_names, and no
\* entry has a NaN correlation.
C7_SelectionValid ==
  (sel.called /\ sel.exc = "ok") =>
    /\ Len(sel.top_genes) <= sel.n_top_genes
    /\ \A i \in DOMAIN sel.top_genes :
         /\ sel.top_genes[i] \in Genes
         /\ sel.gene_corr[sel.top_genes[i]] # NaN

\* a selection cut to n_top_genes, from a gene_corr over the genes of
\* adata.raw whose gene outside adata is defined, and with a NaN gene left out
C7_Witness ==
  /\ sel.called /\ sel.exc = "ok"
  /\ Len(sel.top_genes) = sel.n_top_genes
  /\ DOMAIN sel.gene_corr = RawGenes
  /\ \E g \in RawGenes \ Genes : sel.gene_corr[g] # NaN
  /\ ValidGenes # Genes

\* C8 as stated: the selection is the head of the stable sort of the genes
\* of adata by correlation, ties in index order, in both directions.
C8_StableOrder ==
  (sel.called /\ sel.exc = "ok") =>
    sel.top_genes = TopGenes(StableOrder(sel.gene_corr, sel.ascending), Genes, sel.n_top_genes)

\* C8, amended: the selection is ordered by correlation in the direction
\* asked for and no gene left out is strictly ahead of a selected one; the
\* order among genes of equal correlation is not determined.
C8_SortedInDirection ==
  (sel.called /\ sel.exc = "ok") =>
    /\ \A i, j \in DOMAIN sel.top_genes :
         i < j => InDirection(sel.gene_corr[sel.top_genes[i]], sel.gene_corr[sel.top_genes[j]])
    /\ \A g \in ValidGenes \ SeqRange(sel.top_genes) :
         \A i \in DOMAIN sel.top_genes :
           InDirection(sel.gene_corr[sel.top_genes[i]], sel.gene_corr[g])

\* the truncation has kept the later of two genes of equal correlation
C8_Witness ==
  /\ sel.called /\ sel.exc = "ok"
  /\ \E g \in ValidGenes \ SeqRange(sel.top_genes) :
       \E i \in DOMAIN sel.top_genes :
         g < sel.top_genes[i] /\ sel.gene_corr[g] = sel.gene_corr[sel.top_genes[i]]

\* C9 as stated: with at least one and fewer than n_top_genes genes of
\* defined correlation, the selection does not fail, keeps the valid genes
\* and warns, also when the other genes have a NaN correlation.
C9_FewerValidGenesWarns ==
  (/\ sel.called /\ sel.n_top_genes > 0
   /\ ValidGenes # {} /\ Cardinality(ValidGenes) < sel.n_top_genes
   /\ sel.layer \in {"X"} \cup DOMAIN layers
   /\ sel.aggregation \in CytoTRACEAggregation) =>
    (sel.exc = "ok" /\ sel.warned /\ SeqRange(sel.top_genes) = ValidGenes)

\* C9, amended: with fewer than n_top_genes genes of defined correlation,
\* the selection proceeds with all genes of adata and warns if none of them
\* has a NaN correlation, and raises ValueError if one of them has.
C9_FewerGenesWarnsOrNaNRaises ==
  (sel.called /\ sel.n_top_genes > 0 /\ Cardinality(ValidGenes) < sel.n_top_genes) =>
    IF ValidGenes = Genes
      THEN (sel.layer \in {"X"} \cup DOMAIN layers /\ sel.aggregation \in CytoTRACEAggregation)
             => (sel.exc = "ok" /\ sel.warned /\ SeqRange(sel.top_genes) = Genes)
      ELSE sel.exc = "ValueError:NaN"

\* more genes were asked for than adata holds, all of defined correlation:
\* the call has warned and returned them all
C9_Witness ==
  /\ sel.called /\ sel.exc = "ok" /\ sel.warned
  /\ sel.n_top_genes > NGenes
  /\ Len(sel.top_genes) = NGenes

\* ================================================= properties of SpecNorm
\* the cells without any edge in the stored kNN graph
IsolatedNodes == {i \in Cells : \A j \in Cells : kernel.conn[i][j] = 0 /\ kernel.conn[j][i] = 0}

\* every row sum and every column sum of the stored kNN graph is positive
PositiveDegrees ==
  \A i \in Cells : RowDegrees(kernel.conn)[i] > 0 /\ Degrees(kernel.conn)[i] > 0

\* C11: _density_normalize on a kernel whose kNN graph has an isolated node
\* raises, and it never returns a matrix with an infinite or NaN entry.
C11_IsolatedNodeRaises ==
  norm.called =>
    /\ IsolatedNodes # {} => norm.exc # "ok"
    /\ norm.exc = "ok" => \A i, j \in Cells : IsFinite(norm.result[i][j])

\* C12 as stated: the result is matrix[i][j] / (q[i] * q[j]) with q the row
\* sums of the stored kNN graph, also for a graph that is not symmetric.
C12_ScaledByRowDegrees ==
  (norm.called /\ PositiveDegrees) =>
    LET q == [i \in Cells |-> SeqSum([j \in Cells |-> kernel.conn[i][j]])]
    IN  \A i, j \in Cells : norm.result[i][j] = Rat(norm.matrix[i][j], q[i] * q[j])

\* C12, amended: the result is matrix[i][j] / (q[i] * q[j]) with q the column
\* sums of the stored kNN graph (the row sums if the graph is symmetric).
C12_ScaledByColumnDegrees ==
  (norm.called /\ PositiveDegrees) =>
    LET q == [j \in Cells |-> SeqSum([i \in Cells |-> kernel.conn[i][j]])]
    IN  \A i, j \in Cells : norm.result[i][j] = Rat(norm.matrix[i][j], q[i] * q[j])

\* a matrix of ones was normalized by a graph that is not symmetric and whose
\* row sums differ from its column sums
C12_Witness ==
  /\ norm.called /\ PositiveDegrees
  /\ "not_symmetric" \in kernel.warnings
  /\ RowDegrees(kernel.conn) # Degrees(kernel.conn)
  /\ \A i, j \in Cells : norm.matrix[i][j] = 1

\* C13: with a degree vector of ones _density_normalize returns its argument
\* unchanged, and no call changes the stored kNN graph.
C13_UnitDegreesKeepInput ==
  [][norm' # norm =>
       /\ kernel' = kernel /\ obsp' = obsp
       /\ (\A j \in Cells : Degrees(kernel.conn)[j] = 1) =>
            \A i, j \in Cells : norm'.result[i][j] = RInt(norm'.matrix[i][j])]_vars

\* a matrix that is not symmetric was normalized by a graph of unit degrees
C13_Witness ==
  /\ norm.called
  /\ \A j \in Cells : Degrees(kernel.conn)[j] = 1
  /\ \E i, j \in Cells : norm.matrix[i][j] # norm.matrix[j][i]
  /\ \A i, j \in Cells : norm.result[i][j] = RInt(norm.matrix[i][j])

\* C16: a construction with a backward that is not a boolean fails, with
\* TypeError once the base construction has succeeded, and sets no direction
\* flag; after a successful construction the flag is the boolean given, and
\* no later step changes it.
C16_BackwardChecked ==
  [][/\ (kernel'.state # "none" /\ kernel'.given \notin {"True", "False"}) =>
          /\ kernel'.state = "failed"
          /\ "backward" \notin DOMAIN kernel'
          /\ (last'.exc = "ok" /\ "connectivities" \in DOMAIN obsp /\ kernel'.exc # "KeyError:conn_key")
               => kernel'.exc = "TypeError:backward"
     /\ kernel'.state = "constructed" => kernel'.backward = kernel'.given
     /\ kernel.state = "constructed" =>
          (kernel'.state = "constructed" /\ kernel'.backward = kernel.backward)]_vars

\* a construction with backward = None has failed with TypeError
C16_Witness ==
  /\ kernel.state = "failed"
  /\ kernel.exc = "TypeError:backward"
  /\ kernel.given = None
  /\ "backward" \notin DOMAIN kernel

\* ================================================== properties of SpecFit
\* the number of completion signals in a queue
Ones(q) == Cardinality({i \in 1..Len(q) : q[i] = Signal})

\* every lineage of gene g has been prepared, fitted and predicted
LineagesDone(g) ==
  \A l \in 1..fit.lineages :
    <<g, l>> \in fit.prepared /\ <<g, l>> \in fit.fitted /\ <<g, l>> \in fit.predicted

\* C20: with a queue, _fit_gene_trends puts one signal per gene, each after
\* every lineage of that gene is prepared, fitted and predicted, and one
\* None as the last message: a completed call has put len(genes) signals
\* and then None, a call that raised has put no signal for the gene that
\* raised and no None.
C20_QueueProtocol ==
  (fit.state # "none" /\ fit.has_queue) =>
    /\ \A i \in 1..Len(fit.queue) :
         fit.queue[i] = Sentinel => (i = Len(fit.queue) /\ fit.state = "done")
    /\ Ones(fit.queue) <= fit.genes
    /\ \A g \in 1..Ones(fit.queue) : LineagesDone(g)
    /\ fit.state = "done" =>
         fit.queue = [i \in 1..(fit.genes + 1) |-> IF i <= fit.genes THEN Signal ELSE Sentinel]
    /\ fit.state \in {"running", "raised"} => Ones(fit.queue) = fit.gene - 1
    /\ fit.state = "raised" => Len(fit.queue) = fit.gene - 1

\* the fit of the second gene's first lineage has raised after the first
\* gene was signalled
C20_Witness ==
  /\ fit.state = "raised" /\ fit.has_queue
  /\ fit.gene = 2 /\ fit.lineages >= 1
  /\ fit.queue = <<Signal>>
  /\ <<2, 1>> \in fit.prepared /\ <<2, 1>> \notin fit.fitted

\* =============================================== properties of SpecModels
\* the part of a dictionary specification that decides the models of gene g
Governing(items, g) == IF g \in DOMAIN items THEN items[g] ELSE items[Star]

\* every requested gene and lineage is given explicitly or by a wildcard
Covered(items, o, lineages) ==
  \A g \in o :
    /\ g \in DOMAIN items \/ Star \in DOMAIN items
    /\ \A l \in lineages :
         LET sp == Governing(items, g)
         IN  sp.kind = "model" \/ l \in sp.keys \/ Star \in sp.keys

\* the result has a model for every requested gene and lineage
Complete(result, o, lineages) ==
  \A g \in o : g \in DOMAIN result /\ \A l \in lineages : l \in DOMAIN result[g]

\* the specification names only requested genes and lineages (and "*")
OnlyRequested(items, o, lineages) ==
  /\ DOMAIN items \subseteq o \cup {Star}
  /\ \A k \in DOMAIN items :
       items[k].kind = "dict" => items[k].keys \subseteq lineages \cup {Star}

\* C21: _create_models with a dictionary specification that covers every
\* requested gene and every requested lineage, explicitly or by "*",
\* succeeds and returns a complete gene-by-lineage map; a specification
\* that lists every requested lineage for every requested gene and has no
\* "*" is one of them.
C21_CoveredSpecAccepted ==
  (models.called /\ models.model.kind = "dict"
     /\ models.obs # {} /\ models.lineages # {}
     /\ OnlyRequested(models.model.items, models.obs, models.lineages)
     /\ Covered(models.model.items, models.obs, models.lineages)) =>
    /\ models.exc = "ok"
    /\ Complete(models.result, models.obs, models.lineages)

\* what the code does instead: a call succeeds exactly when every lineage
\* dictionary it processes has a "*" key, and every requested gene is given
\* or the gene "*" is; then the result is complete
LineageWildcards(items, o) ==
  \A k \in (DOMAIN items \ {Star}) \cup (IF Star \in DOMAIN items /\ ~(o \subseteq DOMAIN items) THEN {Star} ELSE {}) :
    items[k].kind = "dict" => Star \in items[k].keys

CreateModelsSucceeds ==
  (models.called /\ models.model.kind = "dict") =>
    LET items == models.model.items
    IN  /\ models.exc = "ok" <=>
             /\ LineageWildcards(items, models.obs)
             /\ Star \in DOMAIN items \/ DOMAIN items = models.obs
        /\ (models.exc = "ok" /\ models.lineages # {}) =>
             Complete(models.result, models.obs, models.lineages)

\* ============================================ properties of SpecCallbacks
\* C22: for a dictionary specification whose gene keys are requested genes
\* or "*", the map returned by _create_callbacks has exactly the requested
\* genes as keys ("*" is not one of them), each with a callback for every
\* requested lineage.
C22_KeysAreRequestedGenes ==
  (callbacks.called /\ callbacks.callback.kind = "dict"
     /\ callbacks.obs # {} /\ callbacks.lineages # {}
     /\ DOMAIN callbacks.callback.items \subseteq callbacks.obs \cup {Star}
     /\ callbacks.exc = "ok") =>
    /\ DOMAIN callbacks.result = callbacks.obs
    /\ \A g \in callbacks.obs : callbacks.lineages \subseteq DOMAIN callbacks.result[g]

\* what the code returns instead: the keys of the specification, "*"
\* included, and the requested genes, each with every requested lineage
CreateCallbacksKeys ==
  (callbacks.called /\ callbacks.callback.kind = "dict"
     /\ callbacks.lineages # {} /\ callbacks.exc = "ok") =>
    /\ DOMAIN callbacks.result = DOMAIN callbacks.callback.items \cup callbacks.obs
    /\ \A g \in DOMAIN callbacks.result : callbacks.lineages \subseteq DOMAIN callbacks.result[g]

====
